---------------------------- MODULE Spec2Model ----------------------------
(***************************************************************************)
(* rain-alert.py: a scheduled, single-shot script.  Each run reads three   *)
(* secrets from the environment, GETs the hourly forecast, inspects the    *)
(* first one or two hourly entries for rain, resolves an icon through a    *)
(* directory of cached PNG files, and POSTs one notification.              *)
(*                                                                         *)
(* A run is a process r with a program counter pc[r]; the steps are cut at *)
(* the script's interactions with the outside (environment, network,       *)
(* clock, filesystem), so that runs sharing one cache directory can        *)
(* interleave exactly where the operating system lets them.                *)
(*                                                                         *)
(* Strings that the script only copies are TLA+ strings.  The condition    *)
(* category ("main") is lower-cased and searched, so it is a sequence of   *)
(* one-character strings.  Filesystem failures (makedirs, open, write) are *)
(* not modelled.                                                           *)
(***************************************************************************)
EXTENDS Integers, Sequences, FiniteSets, TLC

VARIABLES
    pc,               \* pc[r]: the next step of run r
    before,           \* before[r]: the runs that had ended when r started
    env,              \* env[r]: the three secrets as os.getenv returned them
    error,            \* error[r]: the logged error / uncaught exception, or ""
    response,         \* response[r]: the forecast body, held until line 63
                      \* reads it (the name is rebound at lines 83, 104)
    minute,           \* minute[r]: datetime.now().minute read at line 62
    next_hour,        \* next_hour[r]: the selected leading hourly entries
    message,          \* message[r]: the chosen message, <<>> before line 70/74
    icon,             \* icon[r]: the chosen icon identifier
    icon_path,        \* icon_path[r]: cache file of the icon, or None
    icon_content,     \* icon_content[r]: response.content of the icon GET
    status,           \* status[r]: outcome of each of the run's requests
    payload,          \* payload[r]: what the notification POST carried
    calls,            \* calls[r]: outbound requests and cache writes so far
    cache_dir_exists, \* whether args.icon_cache_dir exists
    cache             \* cache[f]: content of <f>.png in the cache directory

vars == <<pc, before, env, error, response, minute, next_hour, message, icon,
          icon_path, icon_content, status, payload, calls, cache_dir_exists, cache>>

---------------------------------------------------------------------------
(* Bounds *)

\* Longest "hourly" array a forecast response carries in the single-run model.
MaxHourly == 3

\* Number of runs sharing the cache directory in the multi-run model.
NumRuns == 2

---------------------------------------------------------------------------
(* Python values *)

\* None, as a value and as f"{None}" renders it in a file name.
PyNone == "<None>"

\* A key that a dict does not hold.
KeyAbsent == "<absent>"

\* A variable not yet assigned.
Unset == "<unset>"

\* A path that does not exist.
NoFile == "<nofile>"

\* "main" values: a key that is absent, and JSON null.
MainAbsent == <<"<absent>">>
MainNull == <<"<null>">>

UpperChars == <<"A","B","C","D","E","F","G","H","I","J","K","L","M",
                "N","O","P","Q","R","S","T","U","V","W","X","Y","Z">>
LowerChars == <<"a","b","c","d","e","f","g","h","i","j","k","l","m",
                "n","o","p","q","r","s","t","u","v","w","x","y","z">>

\* str.lower() of one character.
LowerChar(c) ==
    IF \E i \in 1..Len(UpperChars) : UpperChars[i] = c
    THEN LowerChars[CHOOSE i \in 1..Len(UpperChars) : UpperChars[i] = c]
    ELSE c

\* str.lower()
Lower(s) == [i \in 1..Len(s) |-> LowerChar(s[i])]

\* needle in haystack (substring test on strings)
Contains(haystack, needle) ==
    \E k \in 0..(Len(haystack) - Len(needle)) :
        \A j \in 1..Len(needle) : haystack[k + j] = needle[j]

\* Line 69: "rain" in weather.get("main", "").lower(), for main a string.
IsRain(main) == Contains(Lower(main), <<"r","a","i","n">>)

\* Line 69: weather.get("main", "")
GetMain(weather) == IF weather.main = MainAbsent THEN <<>> ELSE weather.main

\* Lines 71, 75: weather.get("icon")
GetIcon(weather) == IF weather.icon = KeyAbsent THEN PyNone ELSE weather.icon

\* The dict {} of the default [{}] at lines 67 and 75.
EmptyDict == [main |-> MainAbsent, description |-> KeyAbsent, icon |-> KeyAbsent]

\* Lines 67, 75: hour.get("weather", [{}])
GetWeatherList(hour) == IF hour.has_weather THEN hour.weather ELSE <<EmptyDict>>

\* Line 70: the f-string of the rain alert.
RainAlert(description) == <<"Rain alert: ", description, " in the next hour">>

\* Line 74
NoRainMessage == <<"No rain in the next hour">>

\* Line 80: the file of the cache directory that holds the icon, f"{icon}.png".
IconFile(i) == IF i = PyNone THEN "None" ELSE i

\* Line 62, and the same with the threshold of the comment at line 60.
ForecastRangeLate(m) == IF m > 15 THEN 2 ELSE 1
ForecastRange(m) == IF m > 10 THEN 2 ELSE 1

\* Line 63: hourly[:n]
Slice(hourly, n) == SubSeq(hourly, 1, IF n < Len(hourly) THEN n ELSE Len(hourly))

\* Lines 57, 107: Response.raise_for_status() raises for 4xx and 5xx; the
\* variant lets client errors through.
RaisesOnServerErrorOnly(status_code) == status_code >= 500 /\ status_code < 600
RaisesForStatus(status_code) == status_code >= 400 /\ status_code < 600

\* Lines 35, 41, 45: "not value" for os.getenv's result (None or a string);
\* the variant is "value is None".
IsFalsyNoneOnly(value) == value = PyNone
IsFalsy(value) == value = PyNone \/ value = ""

\* Line 84: the icon download counts as failed; the variant accepts anything
\* below 500.
IconDownloadFailedServerOnly(status_code) == status_code >= 500
IconDownloadFailed(status_code) == status_code # 200

---------------------------------------------------------------------------
(* The forecast responses, clock minutes and environments the runs meet *)

Rain == <<"R","a","i","n">>
LightRain == <<"L","i","g","h","t"," ","R","a","i","n">>
Clear == <<"C","l","e","a","r">>
Drizzle == <<"D","r","i","z","z","l","e">>

Condition(m, d, i) == [main |-> m, description |-> d, icon |-> i]

Hour(conditions) == [has_weather |-> TRUE, weather |-> conditions]

\* An hourly entry with no "weather" key.
HourNoWeather == [has_weather |-> FALSE, weather |-> <<>>]

Hours ==
    { Hour(<<Condition(Rain, "light rain", "10d")>>),
      Hour(<<Condition(LightRain, "heavy intensity rain", "09d")>>),
      Hour(<<Condition(Clear, "clear sky", "01d")>>),
      Hour(<<Condition(Drizzle, "light intensity drizzle", "09d")>>),
      Hour(<<Condition(Rain, KeyAbsent, "10d")>>),
      Hour(<<Condition(MainAbsent, "clear sky", "01d")>>),
      Hour(<<Condition(MainNull, "clear sky", "01d")>>),
      Hour(<<Condition(Rain, "moderate rain", KeyAbsent)>>),
      Hour(<<Condition(Clear, "clear sky", "01d"),
             Condition(Rain, "light rain", "10d")>>),
      Hour(<<>>),
      HourNoWeather }

RECURSIVE SeqsUpTo(_, _)
SeqsUpTo(S, n) ==
    IF n = 0 THEN {<<>>}
    ELSE LET shorter == SeqsUpTo(S, n - 1)
         IN  shorter \cup {Append(q, x) : q \in shorter, x \in S}

\* A response whose body is JSON with an "hourly" array.
Json(hourly) == [kind |-> "json", hourly |-> hourly]

\* A response whose body is not JSON, or has no "hourly" key.
Malformed == [kind |-> "malformed", hourly |-> <<>>]

NoResponse == [kind |-> "none", hourly |-> <<>>]

Bodies == {Json(h) : h \in SeqsUpTo(Hours, MaxHourly)} \cup {Malformed}

Minutes == {0, 10, 11, 59}

SecretValues == {PyNone, "", "secret"}

Envs ==
    [OPENWEATHERMAP_API_KEY : SecretValues,
     PUSHOVER_API_KEY : SecretValues,
     PUSHOVER_USER_KEY : SecretValues]

UnreadEnv ==
    [OPENWEATHERMAP_API_KEY |-> Unset,
     PUSHOVER_API_KEY |-> Unset,
     PUSHOVER_USER_KEY |-> Unset]

Icons == {"10d", "09d", "01d", PyNone}

Files == {IconFile(i) : i \in Icons}

\* What the icon server may serve for an icon.
IconContents == {"png-a", "png-b"}

\* A reduced environment for the runs that share a cache directory.
RaceBodies ==
    { Json(<<Hour(<<Condition(Rain, "light rain", "10d")>>)>>),
      Json(<<Hour(<<Condition(Clear, "clear sky", "01d")>>)>>) }

RaceMinutes == {30}

RaceEnvs ==
    { [OPENWEATHERMAP_API_KEY |-> "secret",
       PUSHOVER_API_KEY |-> "secret",
       PUSHOVER_USER_KEY |-> "secret"],
      [OPENWEATHERMAP_API_KEY |-> "secret",
       PUSHOVER_API_KEY |-> "secret",
       PUSHOVER_USER_KEY |-> ""] }

RaceFiles == {"10d", "01d"}

ForecastStatuses == {200, 401, 500}
IconStatuses == {200, 204, 404, 500}
PostStatuses == {200, 400, 500}

RaceForecastStatuses == {200, 500}
RaceIconStatuses == {200, 404}
RacePostStatuses == {200, 500}

---------------------------------------------------------------------------
(* Lines 59-75: the decision *)

Raised(exception) == [error |-> exception, message |-> <<>>, icon |-> Unset]

Chosen(m, i) == [error |-> "", message |-> m, icon |-> i]

\* Line 75: next_hour[0].get("weather", [{}])[0].get("icon"); the variant
\* reads the last selected entry.
NoRainIconLast(hours) == GetIcon(GetWeatherList(hours[Len(hours)])[1])
NoRainIcon(hours) == GetIcon(GetWeatherList(hours[1])[1])

\* Lines 73-75: the else clause of the for loop.
NoRain(hours) ==
    IF Len(hours) = 0 \/ Len(GetWeatherList(hours[1])) = 0
    THEN Raised("IndexError")
    ELSE Chosen(NoRainMessage, NoRainIcon(hours))

\* Lines 66-75: the for loop from entry i on, with its break and its else.
RECURSIVE Scan(_, _)
Scan(hours, i) ==
    IF i > Len(hours) THEN NoRain(hours)
    ELSE LET conditions == GetWeatherList(hours[i])
         IN  IF Len(conditions) = 0 THEN Raised("IndexError")
             ELSE LET weather == conditions[1]
                  IN  IF weather.main = MainNull THEN Raised("AttributeError")
                      ELSE IF IsRain(GetMain(weather))
                      THEN IF weather.description = KeyAbsent
                           THEN Raised("KeyError")
                           ELSE Chosen(RainAlert(weather.description),
                                       GetIcon(weather))
                      ELSE Scan(hours, i + 1)

\* The loop without its break: a later matching entry overrides an earlier one.
RECURSIVE ScanNoBreak(_, _, _)
ScanNoBreak(hours, i, found) ==
    IF i > Len(hours)
    THEN IF found.error = "" /\ found.message = <<>> THEN NoRain(hours) ELSE found
    ELSE LET conditions == GetWeatherList(hours[i])
         IN  IF Len(conditions) = 0 THEN Raised("IndexError")
             ELSE LET weather == conditions[1]
                  IN  IF weather.main = MainNull THEN Raised("AttributeError")
                      ELSE IF IsRain(GetMain(weather))
                      THEN IF weather.description = KeyAbsent
                           THEN Raised("KeyError")
                           ELSE ScanNoBreak(hours, i + 1,
                                    Chosen(RainAlert(weather.description),
                                           GetIcon(weather)))
                      ELSE ScanNoBreak(hours, i + 1, found)

\* Lines 66-75, and the same without the break.
CheckRainNoBreak(hours) == ScanNoBreak(hours, 1, Chosen(<<>>, Unset))
CheckRain(hours) == Scan(hours, 1)


---------------------------------------------------------------------------
(* The runs *)

NoRequest == [issued |-> FALSE, connected |-> FALSE, status_code |-> 0]

\* A request that raised ConnectionError: no HTTP response came back.
NoConnection == [issued |-> TRUE, connected |-> FALSE, status_code |-> 0]

Answered(code) == [issued |-> TRUE, connected |-> TRUE, status_code |-> code]

NoPayload ==
    [message |-> <<>>, attachment |-> NoFile, attachment_type |-> KeyAbsent]

Terminated(r) == pc[r] \in {"exit1", "raised", "done"}

\* sys.exit(1) and an uncaught exception both end the process with status 1.
ExitStatus(r) == IF pc[r] = "done" THEN 0 ELSE 1

Init(runs, files) ==
    /\ pc = [r \in runs |-> "start"]
    /\ before = [r \in runs |-> {}]
    /\ env = [r \in runs |-> UnreadEnv]
    /\ error = [r \in runs |-> ""]
    /\ response = [r \in runs |-> NoResponse]
    /\ minute = [r \in runs |-> -1]
    /\ next_hour = [r \in runs |-> <<>>]
    /\ message = [r \in runs |-> <<>>]
    /\ icon = [r \in runs |-> Unset]
    /\ icon_path = [r \in runs |-> Unset]
    /\ icon_content = [r \in runs |-> ""]
    /\ status = [r \in runs |->
                    [forecast |-> NoRequest, icon |-> NoRequest, post |-> NoRequest]]
    /\ payload = [r \in runs |-> NoPayload]
    /\ calls = [r \in runs |-> [forecast |-> 0, icon |-> 0, post |-> 0, write |-> 0]]
    /\ cache_dir_exists \in BOOLEAN
    /\ cache \in [Files -> {NoFile, "png-old"}]
    /\ \A f \in Files : cache[f] # NoFile => cache_dir_exists /\ f \in files

\* Lines 14-31: arguments, logging, and the cache directory.
Setup(r) ==
    /\ pc[r] = "start"
    /\ cache_dir_exists' = TRUE
    /\ before' = [before EXCEPT ![r] = {q \in DOMAIN pc : Terminated(q)}]
    /\ pc' = [pc EXCEPT ![r] = "env"]
    /\ UNCHANGED <<env, error, response, minute, next_hour, message, icon,
                   icon_path, icon_content, status, payload, calls, cache>>

\* Lines 33-47: the three secrets, each checked as soon as it is read.
MissingSecret(e) ==
    IF IsFalsy(e.OPENWEATHERMAP_API_KEY) THEN "OPENWEATHERMAP_API_KEY not found"
    ELSE IF IsFalsy(e.PUSHOVER_API_KEY) THEN "PUSHOVER_API_KEY not found"
    ELSE IF IsFalsy(e.PUSHOVER_USER_KEY) THEN "PUSHOVER_USER_KEY not found"
    ELSE ""

CheckSecrets(r, envs) ==
    /\ pc[r] = "env"
    /\ \E e \in envs :
        /\ env' = [env EXCEPT ![r] = e]
        /\ error' = [error EXCEPT ![r] = MissingSecret(e)]
        /\ pc' = [pc EXCEPT ![r] = IF MissingSecret(e) = "" THEN "forecast" ELSE "exit1"]
    /\ UNCHANGED <<before, response, minute, next_hour, message, icon, icon_path,
                   icon_content, status, payload, calls, cache_dir_exists, cache>>

\* Lines 49-57: the forecast GET and raise_for_status.
GetForecast(r, codes, bodies) ==
    /\ pc[r] = "forecast"
    /\ calls' = [calls EXCEPT ![r].forecast = @ + 1]
    /\ \/ /\ status' = [status EXCEPT ![r].forecast = NoConnection]
          /\ error' = [error EXCEPT ![r] = "ConnectionError"]
          /\ pc' = [pc EXCEPT ![r] = "raised"]
          /\ UNCHANGED response
       \/ \E code \in codes :
          /\ status' = [status EXCEPT ![r].forecast = Answered(code)]
          /\ IF RaisesForStatus(code)
             THEN /\ error' = [error EXCEPT ![r] = "HTTPError"]
                  /\ pc' = [pc EXCEPT ![r] = "raised"]
                  /\ UNCHANGED response
             ELSE /\ \E body \in bodies : response' = [response EXCEPT ![r] = body]
                  /\ pc' = [pc EXCEPT ![r] = "decide"]
                  /\ UNCHANGED error
    /\ UNCHANGED <<before, env, minute, next_hour, message, icon, icon_path,
                   icon_content, payload, cache_dir_exists, cache>>

\* Lines 59-77: select the leading entries and choose message and icon.
Decide(r, minutes) ==
    /\ pc[r] = "decide"
    /\ \E m \in minutes :
        /\ minute' = [minute EXCEPT ![r] = m]
        /\ IF response[r].kind = "malformed"
           THEN /\ error' = [error EXCEPT ![r] = "JSONDecodeError or KeyError"]
                /\ pc' = [pc EXCEPT ![r] = "raised"]
                /\ UNCHANGED <<next_hour, message, icon>>
           ELSE LET selected == Slice(response[r].hourly, ForecastRange(m))
                    choice == CheckRain(selected)
                IN  /\ next_hour' = [next_hour EXCEPT ![r] = selected]
                    /\ error' = [error EXCEPT ![r] = choice.error]
                    /\ message' = [message EXCEPT ![r] = choice.message]
                    /\ icon' = [icon EXCEPT ![r] = choice.icon]
                    /\ pc' = [pc EXCEPT ![r] =
                                IF choice.error = "" THEN "icon_check" ELSE "raised"]
    /\ response' = [response EXCEPT ![r] = NoResponse]
    /\ UNCHANGED <<before, env, icon_path, icon_content, status, payload, calls,
                   cache_dir_exists, cache>>

\* Line 81: os.path.exists(icon_path); the variants are a lookup that always
\* misses and a lookup that waits on a download in progress.
PathExistsNever(f) == FALSE
PathExistsOrBeingFetched(f) ==
    \/ cache[f] # NoFile
    \/ \E q \in DOMAIN pc :
          pc[q] \in {"icon_get", "icon_open", "icon_write"} /\ icon_path[q] = f
PathExists(f) == cache[f] # NoFile

\* Lines 80-81: the cache lookup.
CheckIconCache(r) ==
    /\ pc[r] = "icon_check"
    /\ icon_path' = [icon_path EXCEPT ![r] = IconFile(icon[r])]
    /\ pc' = [pc EXCEPT ![r] =
                IF PathExists(IconFile(icon[r])) THEN "notify" ELSE "icon_get"]
    /\ UNCHANGED <<before, env, error, response, minute, next_hour, message, icon,
                   icon_content, status, payload, calls, cache_dir_exists, cache>>

\* Lines 82-86: the icon GET and its status check.
GetIconImage(r, codes, contents) ==
    /\ pc[r] = "icon_get"
    /\ calls' = [calls EXCEPT ![r].icon = @ + 1]
    /\ \/ /\ status' = [status EXCEPT ![r].icon = NoConnection]
          /\ error' = [error EXCEPT ![r] = "ConnectionError"]
          /\ pc' = [pc EXCEPT ![r] = "raised"]
          /\ UNCHANGED <<icon_path, icon_content>>
       \/ \E code \in codes :
          /\ status' = [status EXCEPT ![r].icon = Answered(code)]
          /\ UNCHANGED error
          /\ IF IconDownloadFailed(code)
             THEN /\ icon_path' = [icon_path EXCEPT ![r] = PyNone]
                  /\ pc' = [pc EXCEPT ![r] = "notify"]
                  /\ UNCHANGED icon_content
             ELSE /\ \E c \in contents :
                        icon_content' = [icon_content EXCEPT ![r] = c]
                  /\ pc' = [pc EXCEPT ![r] = "icon_open"]
                  /\ UNCHANGED icon_path
    /\ UNCHANGED <<before, env, response, minute, next_hour, message, icon,
                   payload, cache_dir_exists, cache>>

\* Line 88: open(icon_path, "wb") creates the file or truncates it.
OpenIconFile(r) ==
    /\ pc[r] = "icon_open"
    /\ cache' = [cache EXCEPT ![icon_path[r]] = ""]
    /\ pc' = [pc EXCEPT ![r] = "icon_write"]
    /\ UNCHANGED <<before, env, error, response, minute, next_hour, message, icon,
                   icon_path, icon_content, status, payload, calls, cache_dir_exists>>

\* Line 89: the bytes land at offset 0 of whatever the file holds by then; over
\* a longer content that another writer put there, the other's tail remains.
Written(old, new) ==
    IF old \in {"", new} THEN {new} ELSE {new, "png-mixed"}

\* Lines 88-89: f.write(response.content) and the close that ends the with block.
WriteIcon(r) ==
    /\ pc[r] = "icon_write"
    /\ \E c \in Written(cache[icon_path[r]], icon_content[r]) :
          cache' = [cache EXCEPT ![icon_path[r]] = c]
    /\ calls' = [calls EXCEPT ![r].write = @ + 1]
    /\ pc' = [pc EXCEPT ![r] = "notify"]
    /\ UNCHANGED <<before, env, error, response, minute, next_hour, message, icon,
                   icon_path, icon_content, status, payload, cache_dir_exists>>

\* Lines 92-102: the form fields and the optional attachment.
Payload(m, path) ==
    IF path = PyNone
    THEN [message |-> m, attachment |-> NoFile, attachment_type |-> KeyAbsent]
    ELSE [message |-> m, attachment |-> cache[path], attachment_type |-> "image/png"]

\* Lines 91-107: the notification POST and raise_for_status.
SendNotification(r, codes) ==
    /\ pc[r] = "notify"
    /\ payload' = [payload EXCEPT ![r] = Payload(message[r], icon_path[r])]
    /\ calls' = [calls EXCEPT ![r].post = @ + 1]
    /\ \/ /\ status' = [status EXCEPT ![r].post = NoConnection]
          /\ error' = [error EXCEPT ![r] = "ConnectionError"]
          /\ pc' = [pc EXCEPT ![r] = "raised"]
       \/ \E code \in codes :
          /\ status' = [status EXCEPT ![r].post = Answered(code)]
          /\ error' = [error EXCEPT ![r] = IF RaisesForStatus(code) THEN "HTTPError" ELSE ""]
          /\ pc' = [pc EXCEPT ![r] = IF RaisesForStatus(code) THEN "raised" ELSE "done"]
    /\ UNCHANGED <<before, env, response, minute, next_hour, message, icon,
                   icon_path, icon_content, cache_dir_exists, cache>>

---------------------------------------------------------------------------
(* One run, over every forecast response, minute and environment *)

OneRun == {1}

InitOne == Init(OneRun, Files)

Next ==
    \E r \in OneRun :
        \/ Setup(r)
        \/ CheckSecrets(r, Envs)
        \/ GetForecast(r, ForecastStatuses, Bodies)
        \/ Decide(r, Minutes)
        \/ CheckIconCache(r)
        \/ GetIconImage(r, IconStatuses, IconContents)
        \/ OpenIconFile(r)
        \/ WriteIcon(r)
        \/ SendNotification(r, PostStatuses)

Spec == InitOne /\ [][Next]_vars

(* Several runs on one cache directory, started at any time *)

Runs == 1..NumRuns

InitRace == Init(Runs, RaceFiles)

NextRace ==
    \E r \in Runs :
        \/ Setup(r)
        \/ CheckSecrets(r, RaceEnvs)
        \/ GetForecast(r, RaceForecastStatuses, RaceBodies)
        \/ Decide(r, RaceMinutes)
        \/ CheckIconCache(r)
        \/ GetIconImage(r, RaceIconStatuses, IconContents)
        \/ OpenIconFile(r)
        \/ WriteIcon(r)
        \/ SendNotification(r, RacePostStatuses)

SpecRace == InitRace /\ [][NextRace]_vars


---------------------------------------------------------------------------
(* Properties *)

SecretNames == {"OPENWEATHERMAP_API_KEY", "PUSHOVER_API_KEY", "PUSHOVER_USER_KEY"}

\* The request got an HTTP response with a success status.
Succeeded(request) ==
    request.issued /\ request.connected /\ request.status_code < 400

\* The request was issued and raised, or came back with an error status.
Failed(request) ==
    request.issued /\ (~request.connected \/ request.status_code >= 400)

\* The categories of Hours that contain "rain" in some letter case.
RainCategories == {Rain, LightRain}

\* The hourly entry's primary condition has a category containing "rain".
HasRainCategory(hour) ==
    /\ hour.has_weather
    /\ Len(hour.weather) > 0
    /\ hour.weather[1].main \in RainCategories

\* The primary condition record of an hourly entry ({} without "weather").
Primary(hour) == IF hour.has_weather THEN hour.weather[1] ELSE EmptyDict

IconOrNone(weather) == IF weather.icon = "<absent>" THEN "<None>" ELSE weather.icon

\* The run is through with its icon step.
IconResolved(r) ==
    icon_path[r] # Unset /\ pc[r] \notin {"icon_get", "icon_open", "icon_write"}

\* C1: a run whose forecast GET returned success and that has produced its
\* message ends having sent that message by exactly one notification POST,
\* whatever the outcome of the icon step.
C1_ForecastSuccessPostsOnce ==
    \A r \in DOMAIN pc :
        /\ calls[r].post <= 1
        /\ (Terminated(r) /\ Succeeded(status[r].forecast) /\ message[r] # <<>>) =>
              /\ calls[r].post = 1
              /\ payload[r].message = message[r]

\* C2: a run that read an absent or empty value for any of the three secrets
\* has exited with status 1 and has made no forecast GET, icon GET or POST.
C2_MissingSecretExitsWithoutHttp ==
    \A r \in DOMAIN pc :
        (\E k \in SecretNames : env[r][k] \in {"<None>", ""}) =>
            /\ pc[r] = "exit1"
            /\ ExitStatus(r) = 1
            /\ calls[r].forecast = 0 /\ calls[r].icon = 0 /\ calls[r].post = 0
            /\ ~status[r].forecast.issued
            /\ ~status[r].icon.issued
            /\ ~status[r].post.issued

C2_Witness ==
    \E r \in DOMAIN pc :
        /\ pc[r] = "exit1"
        /\ env[r].OPENWEATHERMAP_API_KEY = "secret"
        /\ env[r].PUSHOVER_API_KEY = "secret"
        /\ env[r].PUSHOVER_USER_KEY = ""
        /\ error[r] = "PUSHOVER_USER_KEY not found"

\* C3: when the icon was not cached and its download came back with an error
\* status, the run writes nothing to the cache and goes on to the POST, which
\* carries the chosen message and neither attachment nor attachment type.
C3_IconHttpErrorStillNotifies ==
    \A r \in DOMAIN pc :
        (status[r].icon.connected /\ status[r].icon.status_code >= 400) =>
            /\ calls[r].write = 0
            /\ cache[IconFile(icon[r])] = NoFile
            /\ icon_path[r] = PyNone
            /\ pc[r] \in {"notify", "done", "raised"}
            /\ pc[r] # "notify" =>
                  /\ calls[r].post = 1
                  /\ status[r].post.issued
                  /\ payload[r] = [message |-> message[r],
                                   attachment |-> NoFile,
                                   attachment_type |-> KeyAbsent]

C3_Witness ==
    \E r \in DOMAIN pc :
        /\ pc[r] = "done"
        /\ status[r].icon.status_code = 404
        /\ calls[r].icon = 1 /\ calls[r].post = 1
        /\ payload[r].message = NoRainMessage
        /\ payload[r].attachment = NoFile

\* C4: when the icon GET fails without an HTTP response, the run treats the
\* icon as missing and goes on to send the POST without an attachment.
C4_IconNetworkFailureNonFatal ==
    \A r \in DOMAIN pc :
        (status[r].icon.issued /\ ~status[r].icon.connected) =>
            /\ icon_path[r] = PyNone
            /\ pc[r] \in {"notify", "done", "raised"}
            /\ pc[r] # "notify" =>
                  /\ calls[r].post = 1
                  /\ payload[r].attachment = NoFile

\* C5: when a message has been chosen and some selected entry has a category
\* containing "rain", the message is the rain alert with the description of
\* the earliest such entry and the icon is that entry's icon.
C5_EarliestRainEntryWins ==
    \A r \in DOMAIN pc :
        (message[r] # <<>> /\ \E i \in 1..Len(next_hour[r]) :
                                  HasRainCategory(next_hour[r][i])) =>
            LET first == CHOOSE i \in 1..Len(next_hour[r]) :
                            /\ HasRainCategory(next_hour[r][i])
                            /\ \A j \in 1..(i - 1) : ~HasRainCategory(next_hour[r][j])
                weather == next_hour[r][first].weather[1]
            IN  /\ message[r] = <<"Rain alert: ", weather.description,
                                  " in the next hour">>
                /\ icon[r] = IconOrNone(weather)

C5_Witness ==
    \E r \in DOMAIN pc :
        /\ pc[r] = "done"
        /\ next_hour[r] =
              << Hour(<<Condition(LightRain, "heavy intensity rain", "09d")>>),
                 Hour(<<Condition(Rain, "light rain", "10d")>>) >>
        /\ payload[r].message = <<"Rain alert: ", "heavy intensity rain", " in the next hour">>
        /\ icon[r] = "09d"

\* C6: when a message has been chosen and no selected entry has a category
\* containing "rain", the message is "No rain in the next hour" and the icon
\* is the first selected entry's icon.
C6_NoRainUsesFirstEntryIcon ==
    \A r \in DOMAIN pc :
        (message[r] # <<>> /\ \A i \in 1..Len(next_hour[r]) :
                                  ~HasRainCategory(next_hour[r][i])) =>
            /\ message[r] = <<"No rain in the next hour">>
            /\ Len(next_hour[r]) >= 1
            /\ icon[r] = IconOrNone(Primary(next_hour[r][1]))

C6_Witness ==
    \E r \in DOMAIN pc :
        /\ pc[r] = "done"
        /\ next_hour[r] =
              << Hour(<<Condition(Clear, "clear sky", "01d")>>),
                 Hour(<<Condition(Drizzle, "light intensity drizzle", "09d")>>) >>
        /\ payload[r].message = <<"No rain in the next hour">>
        /\ icon[r] = "01d"

C9_ForecastAndPostFailuresFatal ==
    \A r \in DOMAIN pc :
        /\ calls[r].forecast <= 1
        /\ calls[r].post <= 1
        /\ Failed(status[r].forecast) =>
              /\ pc[r] = "raised"
              /\ ExitStatus(r) = 1
              /\ calls[r].icon = 0 /\ calls[r].write = 0 /\ calls[r].post = 0
        /\ Failed(status[r].post) => pc[r] = "raised" /\ ExitStatus(r) = 1
        /\ (Terminated(r) /\ ExitStatus(r) = 0) =>
              Succeeded(status[r].forecast) /\ Succeeded(status[r].post)

C9_Witness ==
    \E r \in DOMAIN pc :
        /\ pc[r] = "raised"
        /\ status[r].forecast = Answered(401)
        /\ calls[r].forecast = 1
        /\ error[r] = "HTTPError"


\* C8 as stated: of two runs that do not overlap and need the same icon, the
\* first of which had to download it and ran to its end, the second finds the
\* file present, issues no icon GET, leaves the file alone and attaches it,
\* so that one icon download is made in total.
C8_SecondRunNeverDownloads ==
    \A r1, r2 \in DOMAIN pc :
        (/\ r1 \in before[r2]
         /\ icon[r1] = icon[r2]
         /\ calls[r1].icon = 1
         /\ pc[r1] = "done"
         /\ IconResolved(r2)) =>
            /\ calls[r1].icon + calls[r2].icon = 1
            /\ calls[r2].write = 0
            /\ icon_path[r2] = IconFile(icon[r2])

\* C8 as amended: of two runs that do not overlap and need the same icon, the
\* first of which downloaded the icon and wrote it to the cache, the second
\* issues no icon GET, writes nothing and attaches the cached file, so that
\* the two make exactly one icon download.
C8_CachedIconIsReused ==
    \A r1, r2 \in DOMAIN pc :
        (/\ r1 \in before[r2]
         /\ icon[r1] = icon[r2]
         /\ calls[r1].write = 1
         /\ IconResolved(r2)) =>
            /\ calls[r1].icon + calls[r2].icon = 1
            /\ calls[r2].icon = 0
            /\ ~status[r2].icon.issued
            /\ calls[r2].write = 0
            /\ icon_path[r2] = IconFile(icon[r2])
            /\ cache[icon_path[r2]] # NoFile
            /\ status[r2].post.issued =>
                  /\ payload[r2].attachment # NoFile
                  /\ payload[r2].attachment_type = "image/png"

C8_Witness ==
    \E r1, r2 \in DOMAIN pc :
        /\ r1 \in before[r2]
        /\ icon[r1] = "10d" /\ icon[r2] = "10d"
        /\ calls[r1].icon = 1 /\ calls[r1].write = 1
        /\ pc[r2] = "done"
        /\ calls[r2].icon = 0 /\ calls[r2].write = 0
        /\ payload[r2].attachment = icon_content[r1]
        /\ cache["10d"] = icon_content[r1]

\* C10: nothing holds a run back on account of the others: a run that looks
\* up a file that is absent goes on to download it, a run that downloaded
\* opens the file for writing and writes it, whatever the other runs are doing.
C10_NoLockOnCache ==
    [][\A r \in DOMAIN pc :
          /\ (pc[r] = "icon_check" /\ pc'[r] # "icon_check"
                /\ cache[IconFile(icon[r])] = NoFile) =>
                 pc'[r] = "icon_get"
          /\ (pc[r] = "icon_open" /\ pc'[r] # "icon_open") =>
                 pc'[r] = "icon_write" /\ cache'[icon_path[r]] = ""
          /\ (pc[r] = "icon_write" /\ pc'[r] # "icon_write") =>
                 /\ calls'[r].write = calls[r].write + 1
                 /\ cache'[icon_path[r]] \in {icon_content[r], "png-mixed"}]_vars

\* Two overlapping runs both found the file absent, both downloaded, both wrote.
C10_Witness ==
    \E r1, r2 \in DOMAIN pc :
        /\ r1 # r2
        /\ r1 \notin before[r2] /\ r2 \notin before[r1]
        /\ icon_path[r1] = "10d" /\ icon_path[r2] = "10d"
        /\ calls[r1].icon = 1 /\ calls[r2].icon = 1
        /\ calls[r1].write = 1 /\ calls[r2].write = 1
        /\ icon_content[r1] # icon_content[r2]
        /\ cache["10d"] = "png-mixed"


===========================================================================
